---- MODULE Spec2Model ----
(***************************************************************************)
(* BETTI core balancer (src/betti_core_balancer.py): the admission         *)
(* coordinator BettiBalancer, its scoped-acquisition wrappers (balanced,   *)
(* balanced_sync, heavy_task / medium_task, betti_balancer_middleware) and *)
(* direct callers of can_run / start_task / end_task / reset_stats.        *)
(*                                                                         *)
(* Granularity.  Each `with self._state_lock:` block is one atomic step.   *)
(* The reads `now = time.time()` at lines 137 and 172 happen before the    *)
(* lock is taken and are steps of their own, so start_task is four steps:  *)
(*   CanRunNow (137), CanRunLocked (139-163, 169-170),                     *)
(*   StartTaskNow (172), StartTaskLocked (174-182).                        *)
(* In SpecLock taking the lock is a step of its own (Acquire) and the body  *)
(* with the release is the step that follows; elsewhere the two are one.   *)
(* Threads (balanced_sync, direct callers) interleave at every step.       *)
(* Coroutines (balanced, the context managers, the middleware) share one   *)
(* event loop: between two awaits a coroutine holds the loop, so no other  *)
(* coroutine steps while one is inside start_task or its finally clause.   *)
(*                                                                         *)
(* Time.  Timestamps are kept relative to the present: time.time() is      *)
(* always Horizon, and Tick ages every stored timestamp by one unit,       *)
(* clamping at 0.  Only differences now - last_*_time are ever compared    *)
(* with a cooldown, and a clamped timestamp is at least MaxCooldown older  *)
(* than every `now` a caller can hold (Tick waits for a caller whose `now` *)
(* is MaxLag old), so the comparison is exact.                             *)
(***************************************************************************)
EXTENDS Integers, FiniteSets, Sequences, TLC

\* ---- bounds of the model ----
NumProcs == 3
MaxCallers == 2
MaxParallel == 2
MaxCooldown == 1
MaxLag == 1
MaxSkips == 2
MaxOps == 4
AttemptCap == 2
MaxObjs == 2
MaxLoops == 2

Procs == 1..NumProcs
Horizon == MaxCooldown + MaxLag

\* ---- TaskWeight ----
LIGHT == "light"
MEDIUM == "medium"
HEAVY == "heavy"
TaskWeight == {LIGHT, MEDIUM, HEAVY}

\* entry points: balanced(skip_action="wait"), balanced(skip_action="skip"),
\* balanced_sync, heavy_task()/medium_task(), betti_balancer_middleware,
\* and direct calls of start_task / can_run / end_task
Wrappers == {"wait", "skip", "sync", "ctx", "mw"}
Coroutines == {"wait", "skip", "ctx", "mw", "pass"}
Direct == {"api_start", "api_check", "api_end"}

VARIABLES
    config,     \* BettiBalancer._config
    stats,      \* BettiBalancer._stats
    pc,         \* pc[p]: where caller p stands
    policy,     \* policy[p]: the entry point p came through
    weight,     \* weight[p]: task_weight of p's unit
    now,        \* now[p]: the local `now` of can_run / start_task
    started,    \* started[p]: _HeavyTaskContext.started
    outcome,    \* outcome[p]: how p's protected work ended
    result,     \* result[p]: what p's caller observes
    ret,        \* ret[p]: last return value of start_task / can_run ("none" during a call)
    attempts,   \* attempts[p]: start_task calls made by p (history)
    ended,      \* ended[p]: end_task calls made by p (history)
    admitted_at,\* admitted_at[w]: time of the latest successful admission (history)
    ops,        \* direct API calls made so far (history)
    lock,       \* the caller inside a `with self._state_lock` block, NoHolder if none
    snap,       \* what the latest get_stats() returned, <<>> before the first call
    metrics,    \* what the latest get_balancer_metrics() returned, <<>> before the first
    instance,   \* BettiBalancer._instance: an object id, NoInstance for None
    objs,       \* objs[k]: _config and _stats of the k-th object made after the first
    ref,        \* ref[p]: the object p's wrapper holds (`balancer`, `self.balancer`)
    req,        \* req[p]: the BalancerConfig p's configure call was given
    tmp,        \* tmp[p]: the value of cls() that get_instance is about to store
    got,        \* got[p]: what p's last configure / get_instance call returned
    path,       \* path[p]: indicator substrings found in the path of p's request
    mode,           \* torture test: the mode of the running phase, "none" before
    active_heavy,   \* torture test: global active_heavy
    last_heavy_ts,  \* torture test: global last_heavy_ts
    counters,       \* torture test: counters dict of the running phase
    wpc,            \* wpc[t]: where worker thread t stands
    wnow,           \* wnow[t]: worker t's local `now`
    tally           \* tally[t]: iterations, skips, runs, decrements of worker t (history)

procVars == <<pc, policy, weight, now, started, outcome, result, ret>>
histVars == <<attempts, ended, admitted_at, ops>>
obsVars == <<snap, metrics>>
classVars == <<instance, objs>>
localVars == <<ref, req, tmp, got, path>>
tortureVars == <<mode, active_heavy, last_heavy_ts, counters, wpc, wnow, tally>>
extVars == <<classVars, localVars, tortureVars>>
vars == <<config, stats, procVars, histVars, lock, obsVars, extVars>>

\* ---- BalancerConfig / BalancerStats ----
BalancerConfig(mph, mpm, cdh, cdm) ==
    [max_parallel_heavy |-> mph, max_parallel_medium |-> mpm,
     cooldown_heavy |-> cdh, cooldown_medium |-> cdm]

BalancerStats ==
    [heavy_running |-> 0, medium_running |-> 0,
     heavy_completed |-> 0, medium_completed |-> 0,
     skips |-> 0, last_heavy_time |-> 0, last_medium_time |-> 0]

Max0(x) == IF x > 0 THEN x ELSE 0

\* ---- objects of class BettiBalancer ----
\* ids: NoInstance is None, First is the object in place when the program starts
\* (its _config and _stats are the variables config and stats), First + k is objs[k]
NoInstance == 0
First == 1

ObjConfig(i) == IF i = First THEN config ELSE objs[i - First].config
ObjStats(i) == IF i = First THEN stats ELSE objs[i - First].stats

\* self._stats of object i becomes s, every other object stays as it is
Store(i, s) ==
    IF i = First
    THEN stats' = s /\ objs' = objs
    ELSE stats' = stats /\ objs' = [objs EXCEPT ![i - First].stats = s]

\* ---- BettiBalancer._state_lock ----
\* the value of `lock` when nobody is inside a `with self._state_lock` block
NoHolder == 0

\* mutant: the lock is taken but not released when the block is left
Unlock_Kept(p) == p

\* leaving a `with self._state_lock` block releases the lock
Unlock(p) == NoHolder

\* time.time() in the sliding frame
Now == Horizon

Cooldown(c, w) == IF w = HEAVY THEN c.cooldown_heavy ELSE c.cooldown_medium
MaxParallelOf(c, w) == IF w = HEAVY THEN c.max_parallel_heavy ELSE c.max_parallel_medium
Running(s, w) == IF w = HEAVY THEN s.heavy_running ELSE s.medium_running

\* ---- BettiBalancer.can_run: the locked block, [ret, stats] ----
TooBusy(s, c, w) ==
    IF w = HEAVY THEN s.heavy_running >= c.max_parallel_heavy
                 ELSE s.medium_running >= c.max_parallel_medium

TooSoon(s, c, w, t) ==
    IF w = HEAVY THEN (t - s.last_heavy_time) < c.cooldown_heavy
                 ELSE (t - s.last_medium_time) < c.cooldown_medium

\* mutant: the ceiling is not consulted, only the cooldown
can_run_NoCeiling(s, c, w, t) ==
    IF w = LIGHT THEN [ret |-> TRUE, stats |-> s]
    ELSE IF TooSoon(s, c, w, t)
         THEN [ret |-> FALSE, stats |-> [s EXCEPT !.skips = @ + 1]]
         ELSE [ret |-> TRUE, stats |-> s]

\* mutant: a class is full only above its ceiling
can_run_OffByOne(s, c, w, t) ==
    IF w = LIGHT THEN [ret |-> TRUE, stats |-> s]
    ELSE IF Running(s, w) > MaxParallelOf(c, w) \/ TooSoon(s, c, w, t)
         THEN [ret |-> FALSE, stats |-> [s EXCEPT !.skips = @ + 1]]
         ELSE [ret |-> TRUE, stats |-> s]

\* mutant: skips counts consecutive rejections and restarts at 0 on an admission
can_run_SkipsRestart(s, c, w, t) ==
    IF w = LIGHT THEN [ret |-> TRUE, stats |-> s]
    ELSE IF TooBusy(s, c, w) \/ TooSoon(s, c, w, t)
         THEN [ret |-> FALSE, stats |-> [s EXCEPT !.skips = @ + 1]]
         ELSE [ret |-> TRUE, stats |-> [s EXCEPT !.skips = 0]]

\* mutant: the LIGHT bypass is missing, light work is throttled like medium work
can_run_LightThrottled(s, c, w, t) ==
    IF TooBusy(s, c, w) \/ TooSoon(s, c, w, t)
    THEN [ret |-> FALSE, stats |-> [s EXCEPT !.skips = @ + 1]]
    ELSE [ret |-> TRUE, stats |-> s]

\* mutant: the Doppler timing check is dropped
can_run_NoCooldown(s, c, w, t) ==
    IF w = LIGHT THEN [ret |-> TRUE, stats |-> s]
    ELSE IF TooBusy(s, c, w)
         THEN [ret |-> FALSE, stats |-> [s EXCEPT !.skips = @ + 1]]
         ELSE [ret |-> TRUE, stats |-> s]

\* mutant: a rejection is not counted
can_run_NoSkipCount(s, c, w, t) ==
    IF w = LIGHT THEN [ret |-> TRUE, stats |-> s]
    ELSE IF TooBusy(s, c, w) \/ TooSoon(s, c, w, t)
         THEN [ret |-> FALSE, stats |-> s]
         ELSE [ret |-> TRUE, stats |-> s]

can_run(s, c, w, t) ==
    IF w = LIGHT THEN [ret |-> TRUE, stats |-> s]
    ELSE IF TooBusy(s, c, w) \/ TooSoon(s, c, w, t)
         THEN [ret |-> FALSE, stats |-> [s EXCEPT !.skips = @ + 1]]
         ELSE [ret |-> TRUE, stats |-> s]

\* mutant: one admission time shared by both classes
start_task_locked_SharedStamp(s, w, t) ==
    IF w = HEAVY
    THEN [s EXCEPT !.heavy_running = @ + 1, !.last_heavy_time = t, !.last_medium_time = t]
    ELSE IF w = MEDIUM
    THEN [s EXCEPT !.medium_running = @ + 1, !.last_medium_time = t, !.last_heavy_time = t]
    ELSE s

\* mutant: the admission is counted but its time is not recorded
start_task_locked_NoStamp(s, w, t) ==
    IF w = HEAVY THEN [s EXCEPT !.heavy_running = @ + 1]
    ELSE IF w = MEDIUM THEN [s EXCEPT !.medium_running = @ + 1]
    ELSE s

\* ---- BettiBalancer.start_task: the locked block after a true can_run ----
start_task_locked(s, w, t) ==
    IF w = HEAVY THEN [s EXCEPT !.heavy_running = @ + 1, !.last_heavy_time = t]
    ELSE IF w = MEDIUM THEN [s EXCEPT !.medium_running = @ + 1, !.last_medium_time = t]
    ELSE s

\* mutant: the completion is counted but the slot is not given back
end_task_KeepsSlot(s, w) ==
    IF w = HEAVY THEN [s EXCEPT !.heavy_completed = @ + 1]
    ELSE IF w = MEDIUM THEN [s EXCEPT !.medium_completed = @ + 1]
    ELSE s

\* mutant: the slot is given back but the completion is not counted
end_task_NoCount(s, w) ==
    IF w = HEAVY THEN [s EXCEPT !.heavy_running = Max0(@ - 1)]
    ELSE IF w = MEDIUM THEN [s EXCEPT !.medium_running = Max0(@ - 1)]
    ELSE s

\* mutant: the decrement is not floored at 0
end_task_NoFloor(s, w) ==
    IF w = HEAVY THEN [s EXCEPT !.heavy_running = @ - 1, !.heavy_completed = @ + 1]
    ELSE IF w = MEDIUM THEN [s EXCEPT !.medium_running = @ - 1, !.medium_completed = @ + 1]
    ELSE s

\* ---- BettiBalancer.end_task ----
end_task(s, w) ==
    IF w = HEAVY THEN [s EXCEPT !.heavy_running = Max0(@ - 1), !.heavy_completed = @ + 1]
    ELSE IF w = MEDIUM THEN [s EXCEPT !.medium_running = Max0(@ - 1), !.medium_completed = @ + 1]
    ELSE s

\* ---- BettiBalancer.reset_stats ----
reset_stats(s) == BalancerStats

\* BalancerConfig(): the defaults of lines 57-64 (both default cooldowns are
\* positive and shorter than one time unit of the model: one unit each)
DefaultConfig == BalancerConfig(6, 12, MaxCooldown, MaxCooldown)

\* mutant: __new__ ignores the config it is given
Constructed_Default(c) == [config |-> DefaultConfig, stats |-> BalancerStats]

\* __new__ lines 108-111: a new object with the given config and fresh stats
Constructed(c) == [config |-> c, stats |-> BalancerStats]

\* __new__ lines 105-112, cls(c) seen from the class: when the slot is empty a new
\* object is made and put in place, otherwise nothing happens
New(inst, heap, c) ==
    IF inst = NoInstance
    THEN [instance |-> First + Len(heap) + 1, objs |-> Append(heap, Constructed(c))]
    ELSE [instance |-> inst, objs |-> heap]

\* the configurations explored: every ceiling and every cooldown for the heavy
\* class, the medium class getting the complementary setting
Configs ==
    {BalancerConfig(mph, MaxParallel + 1 - mph, cdh, MaxCooldown - cdh) :
        mph \in 1..MaxParallel, cdh \in 0..MaxCooldown}

\* torture tests: counters = {"total_loops": 0, "heavy_runs": 0, "skips": 0}
\* (local_torture_v2.py line 101; "total_jobs" in server_torture_test.py line 92)
NoCounters == [total_loops |-> 0, heavy_runs |-> 0, skips |-> 0]
NoTally == [iter |-> 0, skip |-> 0, run |-> 0, dec |-> 0]

\* a freshly constructed coordinator and callers that have done nothing yet
Fresh ==
    /\ config \in Configs
    /\ stats = BalancerStats
    /\ now = [p \in Procs |-> 0]
    /\ started = [p \in Procs |-> FALSE]
    /\ outcome = [p \in Procs |-> "none"]
    /\ result = [p \in Procs |-> "pending"]
    /\ ret = [p \in Procs |-> "none"]
    /\ attempts = [p \in Procs |-> 0]
    /\ ended = [p \in Procs |-> 0]
    /\ admitted_at = [w \in {HEAVY, MEDIUM} |-> -1]
    /\ ops = 0
    /\ lock = NoHolder
    /\ snap = <<>>
    /\ metrics = <<>>
    /\ instance = First
    /\ objs = <<>>
    /\ ref = [p \in Procs |-> First]
    /\ req = [p \in Procs |-> <<>>]
    /\ tmp = [p \in Procs |-> NoInstance]
    /\ got = [p \in Procs |-> NoInstance]
    /\ path = [p \in Procs |-> {}]
    /\ mode = "none"
    /\ active_heavy = 0
    /\ last_heavy_ts = 0
    /\ counters = NoCounters
    /\ wpc = [t \in Procs |-> "off"]
    /\ wnow = [t \in Procs |-> 0]
    /\ tally = [t \in Procs |-> NoTally]

Init ==
    /\ Fresh
    /\ pc = [p \in Procs |-> "idle"]
    /\ policy = [p \in Procs |-> "none"]
    /\ weight = [p \in Procs |-> LIGHT]

\* ---- scheduling ----
\* pc values at which a coroutine is running on the event loop (no await between)
LoopHolding == {"can_run_lock", "start_now", "start_lock", "finally"}

\* a coroutine runs only when no other coroutine holds the event loop
LoopFree(p) ==
    policy[p] \in Coroutines =>
        \A q \in Procs \ {p} : policy[q] \in Coroutines => pc[q] \notin LoopHolding

\* an attempt made now would be admitted
Admissible(i, w) == can_run(ObjStats(i), ObjConfig(i), w, Now).ret

\* bound on rejected attempts: once skips has reached MaxSkips a sleeping waiter
\* is woken only when its attempt can succeed (further failed polls differ from
\* the ones explored only in the value of skips)
MayPoll(p) ==
    pc[p] = "sleep" =>
        (ObjStats(ref[p]).skips < MaxSkips \/ Admissible(ref[p], weight[p]))

Bump(n) == IF n < AttemptCap THEN n + 1 ELSE n

BoolStr(b) == IF b THEN "true" ELSE "false"

\* mutant: the fail-fast wrapper polls like the blocking one
OnRejected_Retry(pol) == IF pol \in Direct THEN "idle" ELSE "sleep"

\* mutant: the blocking wrappers give up after one rejected attempt
OnRejected_GiveUp(pol) == IF pol \in Direct THEN "idle" ELSE "done"

\* mutant: only light work bypasses the coordinator
Unthrottled_OnlyLight(pol, w) == pol \in {"mw", "pass"} /\ w = LIGHT

\* the wrappers that run the work without asking the coordinator: the middleware on
\* a light request (lines 338-339) and balanced with a skip_action other than
\* "wait" and "skip" (lines 288-290), here policy "pass"
Unthrottled(pol, w) == (pol = "mw" /\ w = LIGHT) \/ pol = "pass"

\* mutant: the work is followed by end_task only on normal return (no finally)
AfterWork_NoFinally(pol, w, o) ==
    IF Unthrottled(pol, w) \/ o = "error" THEN "done" ELSE "finally"

\* mutant: __aexit__ never sees started = True
CallsEndTask_NeverStarted(pol, st) == pol # "ctx"

\* ---- control flow of the wrappers ----
\* where a wrapper goes when start_task returned False:
\* balanced "skip" returns None (line 279-281), every other wrapper sleeps and retries
OnRejected(pol) ==
    IF pol = "skip" THEN "done"
    ELSE IF pol \in Direct THEN "idle"
    ELSE "sleep"

\* where a wrapper goes when the protected work has ended with outcome o:
\* into the finally clause / __aexit__, except the middleware's light pass-through
AfterWork(pol, w, o) ==
    IF Unthrottled(pol, w) THEN "done" ELSE "finally"

\* mutant: the finally clause asks the class for the coordinator again
EndTaskOn_Current(p) == instance

\* the object whose end_task the finally clause / __aexit__ calls:
\* `balancer` (lines 265, 275, 286) / `self.balancer` (line 218)
EndTaskOn(p) == ref[p]

\* whether the finally clause / __aexit__ calls end_task
CallsEndTask(pol, st) == pol = "ctx" => st

\* ---- a caller enters a wrapper ----
Enter(p, pol, w) ==
    /\ pc[p] = "idle"
    /\ p <= MaxCallers
    /\ IF p = 1 THEN TRUE ELSE pc[p - 1] # "idle"
    /\ pol = "ctx" => w # LIGHT
    /\ policy' = [policy EXCEPT ![p] = pol]
    /\ weight' = [weight EXCEPT ![p] = w]
    /\ pc' = [pc EXCEPT ![p] = IF Unthrottled(pol, w) THEN "work" ELSE "call"]
    /\ LET n == New(instance, objs, DefaultConfig) IN
        /\ Len(n.objs) <= MaxObjs
        /\ instance' = n.instance
        /\ objs' = n.objs
        /\ ref' = [ref EXCEPT ![p] = n.instance]
    /\ UNCHANGED <<config, stats, now, started, outcome, result, ret, histVars>>
    /\ UNCHANGED <<lock, obsVars, tortureVars, req, tmp, got>>

Launch(p, pol, w) == Enter(p, pol, w) /\ path' = path

\* ---- can_run line 137: now = time.time() ----
CanRunNow(p) ==
    /\ pc[p] \in {"call", "sleep"}
    /\ LoopFree(p)
    /\ MayPoll(p)
    /\ now' = [now EXCEPT ![p] = Now]
    /\ pc' = [pc EXCEPT ![p] = "can_run_lock"]
    /\ attempts' = [attempts EXCEPT ![p] = IF policy[p] \in Wrappers THEN Bump(@) ELSE @]
    /\ ret' = [ret EXCEPT ![p] = "none"]
    /\ UNCHANGED <<config, stats, policy, weight, started, outcome, result,
                   ended, admitted_at, ops>>
    /\ UNCHANGED <<lock, obsVars, extVars>>

\* ---- can_run lines 139-163 and start_task lines 169-170 ----
CanRunLocked(p) ==
    /\ pc[p] = "can_run_lock"
    /\ lock \in {NoHolder, p}
    /\ LoopFree(p)
    /\ LET r == can_run(ObjStats(ref[p]), ObjConfig(ref[p]), weight[p], now[p]) IN
        /\ Store(ref[p], r.stats)
        /\ pc' = [pc EXCEPT ![p] =
                    IF ~r.ret THEN OnRejected(policy[p])
                    ELSE IF policy[p] = "api_check" THEN "idle"
                    ELSE "start_now"]
        /\ ret' = [ret EXCEPT ![p] =
                    IF r.ret /\ policy[p] # "api_check" THEN @ ELSE BoolStr(r.ret)]
        /\ result' = [result EXCEPT ![p] =
                    IF ~r.ret /\ OnRejected(policy[p]) = "done" THEN "none" ELSE @]
    /\ now' = [now EXCEPT ![p] = 0]
    /\ UNCHANGED <<config, policy, weight, started, outcome, histVars>>
    /\ lock' = Unlock(p)
    /\ UNCHANGED <<obsVars, tortureVars, instance, localVars>>

\* ---- start_task line 172: now = time.time() ----
StartTaskNow(p) ==
    /\ pc[p] = "start_now"
    /\ LoopFree(p)
    /\ now' = [now EXCEPT ![p] = Now]
    /\ pc' = [pc EXCEPT ![p] = "start_lock"]
    /\ UNCHANGED <<config, stats, policy, weight, started, outcome, result, ret, histVars>>
    /\ UNCHANGED <<lock, obsVars, extVars>>

\* ---- start_task lines 174-182, and the wrapper up to its await ----
StartTaskLocked(p) ==
    /\ pc[p] = "start_lock"
    /\ lock \in {NoHolder, p}
    /\ LoopFree(p)
    /\ Store(ref[p], start_task_locked(ObjStats(ref[p]), weight[p], now[p]))
    /\ ret' = [ret EXCEPT ![p] = "true"]
    /\ pc' = [pc EXCEPT ![p] = IF policy[p] \in Direct THEN "idle" ELSE "work"]
    /\ started' = [started EXCEPT ![p] = IF policy[p] = "ctx" THEN TRUE ELSE @]
    /\ admitted_at' = IF weight[p] = LIGHT THEN admitted_at
                      ELSE [admitted_at EXCEPT ![weight[p]] = now[p]]
    /\ now' = [now EXCEPT ![p] = 0]
    /\ UNCHANGED <<config, policy, weight, outcome, result, attempts, ended, ops>>
    /\ lock' = Unlock(p)
    /\ UNCHANGED <<obsVars, tortureVars, instance, localVars>>

\* ---- the protected work returns a value or raises ----
Work(p, o) ==
    /\ pc[p] = "work"
    /\ LoopFree(p)
    /\ outcome' = [outcome EXCEPT ![p] = o]
    /\ pc' = [pc EXCEPT ![p] = AfterWork(policy[p], weight[p], o)]
    /\ result' = [result EXCEPT ![p] =
                    IF AfterWork(policy[p], weight[p], o) = "done" THEN o ELSE @]
    /\ UNCHANGED <<config, stats, policy, weight, now, started, ret, histVars>>
    /\ UNCHANGED <<lock, obsVars, extVars>>

WorkReturns(p) == Work(p, "value")
WorkRaises(p) == Work(p, "error")

\* ---- the finally clause of the wrappers / __aexit__ ----
Finally(p) ==
    /\ pc[p] = "finally"
    /\ LoopFree(p)
    /\ IF CallsEndTask(policy[p], started[p])
       THEN /\ lock \in {NoHolder, p}
            /\ Store(EndTaskOn(p), end_task(ObjStats(EndTaskOn(p)), weight[p]))
            /\ ended' = [ended EXCEPT ![p] = @ + 1]
            /\ lock' = Unlock(p)
       ELSE UNCHANGED <<stats, objs, ended, lock>>
    /\ pc' = [pc EXCEPT ![p] = "done"]
    /\ result' = [result EXCEPT ![p] = outcome[p]]
    /\ UNCHANGED <<config, policy, weight, now, started, outcome, ret,
                   attempts, admitted_at, ops>>
    /\ UNCHANGED <<obsVars, tortureVars, instance, localVars>>

\* ---- time passes ----
Age(t) == IF t > 0 THEN t - 1 ELSE t

Tick ==
    /\ \A p \in Procs : pc[p] \in {"can_run_lock", "start_lock"} => now[p] > Horizon - MaxLag
    /\ stats' = [stats EXCEPT !.last_heavy_time = Age(@), !.last_medium_time = Age(@)]
    /\ objs' = [k \in DOMAIN objs |->
                  [objs[k] EXCEPT !.stats.last_heavy_time = Age(@),
                                  !.stats.last_medium_time = Age(@)]]
    /\ now' = [p \in Procs |-> Age(now[p])]
    /\ admitted_at' = [w \in {HEAVY, MEDIUM} |-> Age(admitted_at[w])]
    /\ UNCHANGED <<config, pc, policy, weight, started, outcome, result, ret,
                   attempts, ended, ops>>
    /\ UNCHANGED <<lock, obsVars, tortureVars, instance, localVars>>

\* ---- direct calls of the coordinator by threads ----
ApiCall(p, pol, w) ==
    /\ pc[p] = "idle"
    /\ p <= MaxCallers
    /\ ops < MaxOps
    /\ ops' = ops + 1
    /\ policy' = [policy EXCEPT ![p] = pol]
    /\ weight' = [weight EXCEPT ![p] = w]
    /\ ret' = [ret EXCEPT ![p] = "none"]
    /\ pc' = [pc EXCEPT ![p] = "call"]
    /\ UNCHANGED <<config, stats, now, started, outcome, result,
                   attempts, ended, admitted_at>>
    /\ UNCHANGED <<lock, obsVars, extVars>>

ApiStartTask(p, w) == ApiCall(p, "api_start", w)
ApiCanRun(p, w) == ApiCall(p, "api_check", w)

ApiEndTask(p, w) ==
    /\ pc[p] = "idle"
    /\ p <= MaxCallers
    /\ ops < MaxOps
    /\ ops' = ops + 1
    /\ policy' = [policy EXCEPT ![p] = "api_end"]
    /\ weight' = [weight EXCEPT ![p] = w]
    /\ ret' = [ret EXCEPT ![p] = "none"]
    /\ pc' = [pc EXCEPT ![p] = "end_lock"]
    /\ UNCHANGED <<config, stats, now, started, outcome, result,
                   attempts, ended, admitted_at>>
    /\ UNCHANGED <<lock, obsVars, extVars>>

\* ---- end_task lines 186-192 ----
EndTaskLocked(p) ==
    /\ pc[p] = "end_lock"
    /\ lock \in {NoHolder, p}
    /\ stats' = end_task(stats, weight[p])
    /\ pc' = [pc EXCEPT ![p] = "idle"]
    /\ lock' = Unlock(p)
    /\ UNCHANGED <<config, policy, weight, now, started, outcome, result, ret,
                   histVars, obsVars, extVars>>

ApiResetStats(p) ==
    /\ pc[p] = "idle"
    /\ lock \in {NoHolder, p}
    /\ p <= MaxCallers
    /\ ops < MaxOps
    /\ ops' = ops + 1
    /\ stats' = reset_stats(stats)
    /\ admitted_at' = [w \in {HEAVY, MEDIUM} |-> -1]
    /\ UNCHANGED <<config, procVars, attempts, ended>>
    /\ lock' = Unlock(p)
    /\ UNCHANGED <<obsVars, extVars>>

\* ---- specifications ----
\* the wrappers, entered by coroutines and threads in any mix
Next ==
    \/ \E p \in Procs, pol \in Wrappers, w \in TaskWeight : Launch(p, pol, w)
    \/ \E p \in Procs : CanRunNow(p)
    \/ \E p \in Procs : CanRunLocked(p)
    \/ \E p \in Procs : StartTaskNow(p)
    \/ \E p \in Procs : StartTaskLocked(p)
    \/ \E p \in Procs : WorkReturns(p)
    \/ \E p \in Procs : WorkRaises(p)
    \/ \E p \in Procs : Finally(p)
    \/ Tick

Spec == Init /\ [][Next]_vars

\* threads calling can_run / start_task / end_task / reset_stats directly
NextApi ==
    \/ \E p \in Procs, w \in TaskWeight : ApiStartTask(p, w)
    \/ \E p \in Procs, w \in TaskWeight : ApiCanRun(p, w)
    \/ \E p \in Procs, w \in TaskWeight : ApiEndTask(p, w)
    \/ \E p \in Procs : EndTaskLocked(p)
    \/ \E p \in Procs : ApiResetStats(p)
    \/ \E p \in Procs : CanRunNow(p)
    \/ \E p \in Procs : CanRunLocked(p)
    \/ \E p \in Procs : StartTaskNow(p)
    \/ \E p \in Procs : StartTaskLocked(p)
    \/ Tick

SpecApi == Init /\ [][NextApi]_vars

\* the steps of a launched unit, without further launches
Step(p) ==
    \/ CanRunNow(p)
    \/ CanRunLocked(p)
    \/ StartTaskNow(p)
    \/ StartTaskLocked(p)
    \/ WorkReturns(p)
    \/ WorkRaises(p)
    \/ Finally(p)

NextRun ==
    \/ \E p \in Procs : CanRunNow(p)
    \/ \E p \in Procs : CanRunLocked(p)
    \/ \E p \in Procs : StartTaskNow(p)
    \/ \E p \in Procs : StartTaskLocked(p)
    \/ \E p \in Procs : WorkReturns(p)
    \/ \E p \in Procs : WorkRaises(p)
    \/ \E p \in Procs : Finally(p)
    \/ Tick

\* test_basic_balancing / test_context_manager: NumProcs units of heavy work
\* launched together (asyncio.gather) through the blocking wrappers.  The event
\* loop runs every ready coroutine and the clock advances: weak fairness.
InitWait ==
    /\ Fresh
    /\ pc = [p \in Procs |-> "call"]
    /\ policy \in [Procs -> {"wait", "ctx"}]
    /\ weight = [p \in Procs |-> HEAVY]

SpecWait ==
    /\ InitWait
    /\ [][NextRun]_vars
    /\ WF_vars(Tick)
    /\ \A p \in Procs : WF_vars(Step(p))

\* test_skip_mode: NumProcs units of heavy work launched together through
\* balanced(skip_action="skip")
InitSkip ==
    /\ Fresh
    /\ pc = [p \in Procs |-> "call"]
    /\ policy = [p \in Procs |-> "skip"]
    /\ weight = [p \in Procs |-> HEAVY]

SpecSkip == InitSkip /\ [][NextRun]_vars

\* ---- BalancerStats.to_dict / BettiBalancer.get_stats ----
Max1(x) == IF x > 1 THEN x ELSE 1

\* the dict returned by to_dict; skip_rate is kept as the exact fraction
\* <<numerator, denominator>> of the division at line 89
to_dict(s) ==
    [heavy_running |-> s.heavy_running,
     medium_running |-> s.medium_running,
     heavy_completed |-> s.heavy_completed,
     medium_completed |-> s.medium_completed,
     skips |-> s.skips,
     skip_rate |-> <<s.skips, Max1(s.heavy_completed + s.skips)>>]

get_stats(s) == to_dict(s)

\* ---- get_balancer_metrics ----
\* f"{x:.4f}": the fraction r rounded to four decimals (ties to even), in units of
\* 1/Scale4
Scale4 == 10000

Fmt4(r) ==
    LET q == (r[1] * Scale4) \div r[2]
        m == (r[1] * Scale4) % r[2]
    IN IF 2 * m > r[2] \/ (2 * m = r[2] /\ q % 2 = 1) THEN q + 1 ELSE q

\* one sample of the exposition: its name, its TYPE line and its value
Sample(name, type, value) == [name |-> name, type |-> type, value |-> value]

get_balancer_metrics(d) ==
    << Sample("betti_heavy_running", "gauge", d.heavy_running),
       Sample("betti_heavy_completed", "counter", d.heavy_completed),
       Sample("betti_skips", "counter", d.skips),
       Sample("betti_skip_rate", "gauge", Fmt4(d.skip_rate)) >>

\* ---- a single-threaded program driving the module ----
\* the thread that configures, calls and observes (test_core_balancer.main)
Main == 1

GetStats(p) ==
    /\ pc[p] = "idle"
    /\ p <= MaxCallers
    /\ ops < MaxOps
    /\ lock \in {NoHolder, p}
    /\ ops' = ops + 1
    /\ snap' = <<get_stats(stats)>>
    /\ lock' = Unlock(p)
    /\ UNCHANGED <<config, stats, procVars, attempts, ended, admitted_at, metrics,
                   extVars>>

GetMetrics(p) ==
    /\ pc[p] = "idle"
    /\ p <= MaxCallers
    /\ ops < MaxOps
    /\ lock \in {NoHolder, p}
    /\ ops' = ops + 1
    /\ metrics' = get_balancer_metrics(get_stats(stats))
    /\ lock' = Unlock(p)
    /\ UNCHANGED <<config, stats, procVars, attempts, ended, admitted_at, snap,
                   extVars>>

\* keyword arguments given to configure: each field negative or positive
ConfigInputs ==
    {BalancerConfig(mph, mpm, cdh, cdm) :
        mph \in {-1, 1}, mpm \in {-1, 1},
        cdh \in {-1, MaxCooldown}, cdm \in {-1, MaxCooldown}}

\* BettiBalancer.configure(**kwargs) while no call is in progress: BalancerConfig
\* stores the arguments as given, and a new instance with fresh stats and a fresh
\* lock replaces the singleton
Configure(p, c) ==
    /\ \A q \in Procs : pc[q] = "idle"
    /\ p <= MaxCallers
    /\ ops < MaxOps
    /\ ops' = ops + 1
    /\ config' = c
    /\ stats' = BalancerStats
    /\ lock' = NoHolder
    /\ admitted_at' = [w \in {HEAVY, MEDIUM} |-> -1]
    /\ UNCHANGED <<procVars, attempts, ended, obsVars, extVars>>

NextMain ==
    \/ \E w \in TaskWeight : ApiStartTask(Main, w)
    \/ \E w \in TaskWeight : ApiCanRun(Main, w)
    \/ \E w \in TaskWeight : ApiEndTask(Main, w)
    \/ ApiResetStats(Main)
    \/ GetStats(Main)
    \/ GetMetrics(Main)
    \/ \E c \in ConfigInputs : Configure(Main, c)
    \/ CanRunNow(Main)
    \/ CanRunLocked(Main)
    \/ StartTaskNow(Main)
    \/ StartTaskLocked(Main)
    \/ EndTaskLocked(Main)
    \/ Tick

SpecMain == Init /\ [][NextMain]_vars

\* ---- the state lock taken as a step of its own ----
\* p stands at the head of a `with self._state_lock:` block
AtLockBlock(p) ==
    \/ pc[p] \in {"can_run_lock", "start_lock", "end_lock"}
    \/ pc[p] = "finally" /\ CallsEndTask(policy[p], started[p])

\* Lock.__enter__: p gets the lock when nobody holds it; the body of the block and
\* the release are the step CanRunLocked / StartTaskLocked / Finally that follows
Acquire(p) ==
    /\ AtLockBlock(p)
    /\ LoopFree(p)
    /\ lock = NoHolder
    /\ lock' = p
    /\ UNCHANGED <<config, stats, procVars, histVars, obsVars, extVars>>

\* the wrappers, with the acquisition of the state lock visible
NextLock ==
    \/ Next
    \/ \E p \in Procs : Acquire(p)

SpecLock == Init /\ [][NextLock]_vars

\* ---- BettiBalancer.configure / get_instance / __new__, step by step ----
\* configure lines 125-126: the config is built and the slot is emptied
ConfigureCall(p, c) ==
    /\ pc[p] = "idle"
    /\ Len(objs) < MaxObjs
    /\ ops < MaxOps
    /\ ops' = ops + 1
    /\ policy' = [policy EXCEPT ![p] = "configure"]
    /\ pc' = [pc EXCEPT ![p] = "cfg_new"]
    /\ req' = [req EXCEPT ![p] = <<c>>]
    /\ got' = [got EXCEPT ![p] = NoInstance]
    /\ instance' = NoInstance
    /\ UNCHANGED <<config, stats, weight, now, started, outcome, result, ret,
                   attempts, ended, admitted_at, lock, obsVars, tortureVars, objs, ref, tmp, path>>

\* configure line 127, cls(config): __new__ lines 105-112
ConfigureNew(p) ==
    /\ pc[p] = "cfg_new"
    /\ LET n == New(instance, objs, req[p][1]) IN
        /\ Len(n.objs) <= MaxObjs
        /\ instance' = n.instance
        /\ objs' = n.objs
    /\ pc' = [pc EXCEPT ![p] = "cfg_ret"]
    /\ UNCHANGED <<config, stats, policy, weight, now, started, outcome, result, ret,
                   histVars, lock, obsVars, tortureVars, localVars>>

\* __new__ line 113, `return cls._instance`, handed on by configure
ConfigureRet(p) ==
    /\ pc[p] = "cfg_ret"
    /\ got' = [got EXCEPT ![p] = instance]
    /\ pc' = [pc EXCEPT ![p] = "idle"]
    /\ UNCHANGED <<config, stats, policy, weight, now, started, outcome, result, ret,
                   histVars, lock, obsVars, tortureVars, classVars, ref, req, tmp, path>>

\* get_instance line 118: `if cls._instance is None`
GetInstanceCall(p) ==
    /\ pc[p] = "idle"
    /\ ops < MaxOps
    /\ ops' = ops + 1
    /\ policy' = [policy EXCEPT ![p] = "get_instance"]
    /\ pc' = [pc EXCEPT ![p] = IF instance = NoInstance THEN "gi_new" ELSE "gi_ret"]
    /\ got' = [got EXCEPT ![p] = NoInstance]
    /\ UNCHANGED <<config, stats, weight, now, started, outcome, result, ret,
                   attempts, ended, admitted_at, lock, obsVars, tortureVars, classVars,
                   ref, req, tmp, path>>

\* get_instance line 119, cls(): __new__ lines 105-112
GetInstanceNew(p) ==
    /\ pc[p] = "gi_new"
    /\ LET n == New(instance, objs, DefaultConfig) IN
        /\ Len(n.objs) <= MaxObjs
        /\ instance' = n.instance
        /\ objs' = n.objs
    /\ pc' = [pc EXCEPT ![p] = "gi_new_ret"]
    /\ UNCHANGED <<config, stats, policy, weight, now, started, outcome, result, ret,
                   histVars, lock, obsVars, tortureVars, localVars>>

\* __new__ line 113: the value of cls()
GetInstanceNewRet(p) ==
    /\ pc[p] = "gi_new_ret"
    /\ tmp' = [tmp EXCEPT ![p] = instance]
    /\ pc' = [pc EXCEPT ![p] = "gi_store"]
    /\ UNCHANGED <<config, stats, policy, weight, now, started, outcome, result, ret,
                   histVars, lock, obsVars, tortureVars, classVars, ref, req, got, path>>

\* get_instance line 119: `cls._instance = ...`
GetInstanceStore(p) ==
    /\ pc[p] = "gi_store"
    /\ instance' = tmp[p]
    /\ pc' = [pc EXCEPT ![p] = "gi_ret"]
    /\ UNCHANGED <<config, stats, policy, weight, now, started, outcome, result, ret,
                   histVars, lock, obsVars, tortureVars, objs, localVars>>

\* get_instance line 120: `return cls._instance`
GetInstanceRet(p) ==
    /\ pc[p] = "gi_ret"
    /\ got' = [got EXCEPT ![p] = instance]
    /\ pc' = [pc EXCEPT ![p] = "idle"]
    /\ UNCHANGED <<config, stats, policy, weight, now, started, outcome, result, ret,
                   histVars, lock, obsVars, tortureVars, classVars, ref, req, tmp, path>>

\* threads calling configure and get_instance in any interleaving
NextSingleton ==
    \/ \E p \in 1..MaxCallers, c \in Configs : ConfigureCall(p, c)
    \/ \E p \in Procs : ConfigureNew(p)
    \/ \E p \in Procs : ConfigureRet(p)
    \/ \E p \in 1..MaxCallers : GetInstanceCall(p)
    \/ \E p \in Procs : GetInstanceNew(p)
    \/ \E p \in Procs : GetInstanceNewRet(p)
    \/ \E p \in Procs : GetInstanceStore(p)
    \/ \E p \in Procs : GetInstanceRet(p)

SpecSingleton == Init /\ [][NextSingleton]_vars

\* ---- reconfiguration while wrapped work is in flight ----
\* the thread that calls configure
Admin == NumProcs

\* blocking wrappers entered by coroutines and threads while Admin reconfigures once
NextConf ==
    \/ \E p \in Procs, pol \in {"sync", "ctx"} : Launch(p, pol, HEAVY)
    \/ objs = <<>> /\ \E c \in Configs : ConfigureCall(Admin, c)
    \/ ConfigureNew(Admin)
    \/ ConfigureRet(Admin)
    \/ \E p \in Procs : CanRunNow(p)
    \/ \E p \in Procs : CanRunLocked(p)
    \/ \E p \in Procs : StartTaskNow(p)
    \/ \E p \in Procs : StartTaskLocked(p)
    \/ \E p \in Procs : WorkReturns(p)
    \/ \E p \in Procs : WorkRaises(p)
    \/ \E p \in Procs : Finally(p)
    \/ Tick

SpecConf == Init /\ [][NextConf]_vars

\* ---- betti_balancer_middleware ----
\* lines 329, 331: the substrings looked for in request.url.path
HeavyIndicators == {"/transcode", "/render", "/llm", "/ai"}
MediumIndicators == {"/upload", "/process", "/sync"}

\* a request path, as the set of the fragments that occur in it
Fragments == {"/ai", "/upload", "/status"}
Paths == SUBSET Fragments

\* mutant: the medium indicators are looked for first
Classify_MediumFirst(pth) ==
    IF pth \cap MediumIndicators # {} THEN MEDIUM
    ELSE IF pth \cap HeavyIndicators # {} THEN HEAVY
    ELSE LIGHT

\* lines 329-334: classification of the request by its path
Classify(pth) ==
    IF pth \cap HeavyIndicators # {} THEN HEAVY
    ELSE IF pth \cap MediumIndicators # {} THEN MEDIUM
    ELSE LIGHT

\* lines 327-339: a request enters the middleware
Request(p, pth) ==
    /\ Enter(p, "mw", Classify(pth))
    /\ path' = [path EXCEPT ![p] = pth]

NextMw ==
    \/ \E p \in Procs, pth \in Paths : Request(p, pth)
    \/ \E p \in Procs : CanRunNow(p)
    \/ \E p \in Procs : CanRunLocked(p)
    \/ \E p \in Procs : StartTaskNow(p)
    \/ \E p \in Procs : StartTaskLocked(p)
    \/ \E p \in Procs : WorkReturns(p)
    \/ \E p \in Procs : WorkRaises(p)
    \/ \E p \in Procs : Finally(p)
    \/ Tick

SpecMw == Init /\ [][NextMw]_vars

\* ---- balanced with another skip_action ----
\* balanced(weight, skip_action="queue") callers next to blocking ones
NextPass ==
    \/ \E p \in Procs, pol \in {"pass", "wait"}, w \in TaskWeight : Launch(p, pol, w)
    \/ \E p \in Procs : CanRunNow(p)
    \/ \E p \in Procs : CanRunLocked(p)
    \/ \E p \in Procs : StartTaskNow(p)
    \/ \E p \in Procs : StartTaskLocked(p)
    \/ \E p \in Procs : WorkReturns(p)
    \/ \E p \in Procs : WorkRaises(p)
    \/ \E p \in Procs : Finally(p)
    \/ Tick

SpecPass == Init /\ [][NextPass]_vars

\* ---- cancellation of a waiting coroutine ----
\* mutant: the polling loop sits inside the try block
OnCancel_InsideTry(pol) == "finally"

\* where CancelledError, raised by the await of the polling loop, takes the wrapper:
\* the loops (lines 269-270, 342-343, 211-212) stand before the try block / inside
\* __aenter__, so the error leaves the wrapper at once
OnCancel(pol) == "done"

\* the task of a coroutine waiting in asyncio.sleep is cancelled
Cancel(p) ==
    /\ pc[p] = "sleep"
    /\ policy[p] \in Coroutines
    /\ pc' = [pc EXCEPT ![p] = OnCancel(policy[p])]
    /\ outcome' = [outcome EXCEPT ![p] = "cancelled"]
    /\ result' = [result EXCEPT ![p] = IF OnCancel(policy[p]) = "done" THEN "cancelled" ELSE @]
    /\ UNCHANGED <<config, stats, policy, weight, now, started, ret, histVars>>
    /\ UNCHANGED <<lock, obsVars, extVars>>

NextCancel ==
    \/ \E p \in Procs, pol \in {"wait", "ctx", "mw"}, w \in {HEAVY, MEDIUM} :
            Launch(p, pol, w)
    \/ \E p \in Procs : Cancel(p)
    \/ \E p \in Procs : CanRunNow(p)
    \/ \E p \in Procs : CanRunLocked(p)
    \/ \E p \in Procs : StartTaskNow(p)
    \/ \E p \in Procs : StartTaskLocked(p)
    \/ \E p \in Procs : WorkReturns(p)
    \/ \E p \in Procs : WorkRaises(p)
    \/ \E p \in Procs : Finally(p)
    \/ Tick

SpecCancel == Init /\ [][NextCancel]_vars

\* ---- torture tests: local_torture_v2.py / server_torture_test.py ----
\* MAX_PAR_HEAVY = 3 (6 on the server) and COOLDOWN = 0.10 s (0.02 s), scaled to the
\* model's ceiling and clock; the 8 (cpu_count) worker threads are the Procs
MAX_PAR_HEAVY == MaxParallel
COOLDOWN == MaxCooldown

\* mutant: the slot check lets one job more in
do_heavy_OffByOne(m, active, last, t) ==
    IF m = "balanced"
    THEN ~((t - last) < COOLDOWN \/ active > MAX_PAR_HEAVY)
    ELSE TRUE

\* worker lines 60-74, the decision taken under state_lock: the value of do_heavy
do_heavy(m, active, last, t) ==
    IF m = "balanced"
    THEN LET too_soon == (t - last) < COOLDOWN
             too_busy == active >= MAX_PAR_HEAVY
         IN ~(too_soon \/ too_busy)
    ELSE TRUE

\* run_mode lines 94-110 / run_phase lines 89-104: the globals and the counters
\* start at zero and the workers are started; __main__ runs "raw", then "balanced",
\* each after the previous phase's workers were joined
run_mode(m) ==
    /\ \A t \in Procs : wpc[t] \in {"off", "exit"}
    /\ \/ mode = "none" /\ m = "raw"
       \/ mode = "raw" /\ m = "balanced"
    /\ mode' = m
    /\ active_heavy' = 0
    /\ last_heavy_ts' = 0
    /\ counters' = NoCounters
    /\ wpc' = [t \in Procs |-> "loop"]
    /\ wnow' = [t \in Procs |-> 0]
    /\ tally' = [t \in Procs |-> NoTally]
    /\ UNCHANGED <<config, stats, procVars, histVars, lock, obsVars, classVars, localVars>>

\* worker lines 55-57: the loop test holds, now = time.time()
WorkerBegin(t) ==
    /\ wpc[t] = "loop"
    /\ tally[t].iter < MaxLoops
    /\ wnow' = [wnow EXCEPT ![t] = Now]
    /\ wpc' = [wpc EXCEPT ![t] = "decide"]
    /\ tally' = [tally EXCEPT ![t].iter = @ + 1]
    /\ UNCHANGED <<mode, active_heavy, last_heavy_ts, counters>>
    /\ UNCHANGED <<config, stats, procVars, histVars, lock, obsVars, classVars, localVars>>

\* worker line 55: time.time() >= end_at, the worker returns
WorkerExit(t) ==
    /\ wpc[t] = "loop"
    /\ wpc' = [wpc EXCEPT ![t] = "exit"]
    /\ UNCHANGED <<mode, active_heavy, last_heavy_ts, counters, wnow, tally>>
    /\ UNCHANGED <<config, stats, procVars, histVars, lock, obsVars, classVars, localVars>>

\* worker lines 59-74: the first `with state_lock` block
WorkerDecide(t) ==
    /\ wpc[t] = "decide"
    /\ IF do_heavy(mode, active_heavy, last_heavy_ts, wnow[t])
       THEN /\ active_heavy' = active_heavy + 1
            /\ last_heavy_ts' = IF mode = "balanced" THEN wnow[t] ELSE last_heavy_ts
            /\ counters' = [counters EXCEPT !.heavy_runs = @ + 1]
            /\ tally' = [tally EXCEPT ![t].run = @ + 1]
            /\ wpc' = [wpc EXCEPT ![t] = "job"]
       ELSE /\ counters' = [counters EXCEPT !.skips = @ + 1]
            /\ tally' = [tally EXCEPT ![t].skip = @ + 1]
            /\ wpc' = [wpc EXCEPT ![t] = "rest"]
            /\ UNCHANGED <<active_heavy, last_heavy_ts>>
    /\ wnow' = [wnow EXCEPT ![t] = 0]
    /\ UNCHANGED mode
    /\ UNCHANGED <<config, stats, procVars, histVars, lock, obsVars, classVars, localVars>>

\* worker lines 80-85: the heavy job runs and ends
WorkerJob(t) ==
    /\ wpc[t] = "job"
    /\ wpc' = [wpc EXCEPT ![t] = "finish"]
    /\ UNCHANGED <<mode, active_heavy, last_heavy_ts, counters, wnow, tally>>
    /\ UNCHANGED <<config, stats, procVars, histVars, lock, obsVars, classVars, localVars>>

\* worker lines 87-90: the second `with state_lock` block
WorkerFinish(t) ==
    /\ wpc[t] = "finish"
    /\ active_heavy' = active_heavy - 1
    /\ counters' = [counters EXCEPT !.total_loops = @ + 1]
    /\ tally' = [tally EXCEPT ![t].dec = @ + 1]
    /\ wpc' = [wpc EXCEPT ![t] = "rest"]
    /\ UNCHANGED <<mode, last_heavy_ts, wnow>>
    /\ UNCHANGED <<config, stats, procVars, histVars, lock, obsVars, classVars, localVars>>

\* worker lines 76-78 and 92: time.sleep(0.003), then back to the loop test
WorkerWake(t) ==
    /\ wpc[t] = "rest"
    /\ wpc' = [wpc EXCEPT ![t] = "loop"]
    /\ UNCHANGED <<mode, active_heavy, last_heavy_ts, counters, wnow, tally>>
    /\ UNCHANGED <<config, stats, procVars, histVars, lock, obsVars, classVars, localVars>>

\* time passes during a phase
WorkerTick ==
    /\ mode # "none"
    /\ \A t \in Procs : wpc[t] = "decide" => wnow[t] > Horizon - MaxLag
    /\ last_heavy_ts' = Age(last_heavy_ts)
    /\ wnow' = [t \in Procs |-> Age(wnow[t])]
    /\ UNCHANGED <<mode, active_heavy, counters, wpc, tally>>
    /\ UNCHANGED <<config, stats, procVars, histVars, lock, obsVars, classVars, localVars>>

NextTorture ==
    \/ \E m \in {"raw", "balanced"} : run_mode(m)
    \/ \E t \in Procs : WorkerBegin(t)
    \/ \E t \in Procs : WorkerExit(t)
    \/ \E t \in Procs : WorkerDecide(t)
    \/ \E t \in Procs : WorkerJob(t)
    \/ \E t \in Procs : WorkerFinish(t)
    \/ \E t \in Procs : WorkerWake(t)
    \/ WorkerTick

SpecTorture == Init /\ [][NextTorture]_vars

\* ======================= claims =======================

Launched == {p \in Procs : pc[p] # "idle"}
Admitted == {p \in Procs : ret[p] = "true"}
Counters(s) ==
    <<s.heavy_running, s.medium_running, s.heavy_completed, s.medium_completed, s.skips>>

\* C1: under any interleaving of start_task and end_task by concurrent threads and
\* coroutines, heavy_running <= max_parallel_heavy and medium_running <=
\* max_parallel_medium in every reachable state (end_task only after a true start_task).
C1_RunningWithinCeiling ==
    /\ stats.heavy_running <= config.max_parallel_heavy
    /\ stats.medium_running <= config.max_parallel_medium

\* C2: with max_parallel_heavy = N, cooldown_heavy = 0 and M > N callers that have each
\* made exactly one start_task(HEAVY) call before any end_task, exactly N calls
\* returned true (and M - N returned false).
C2_AllAskedOnce ==
    /\ config.cooldown_heavy = 0
    /\ Cardinality(Launched) > config.max_parallel_heavy
    /\ \A p \in Launched :
          /\ weight[p] = HEAVY
          /\ attempts[p] = 1
          /\ ret[p] \in {"true", "false"}
          /\ pc[p] \in {"work", "sleep", "done"}
          /\ ended[p] = 0

C2_ExactlyNAdmitted ==
    C2_AllAskedOnce =>
        /\ Cardinality(Admitted) = config.max_parallel_heavy
        /\ Cardinality({p \in Launched : ret[p] = "false"}) =
              Cardinality(Launched) - config.max_parallel_heavy

\* C3: start_task is one atomic check-and-mutate step: while a caller stands between
\* start_task's admission check and its mutation, no other coordinator operation
\* takes effect (no counter changes unless that caller itself moves on).
C3_StartTaskAtomic ==
    [][\A p \in Procs :
          (pc[p] \in {"start_now", "start_lock"} /\ Counters(stats') # Counters(stats))
              => pc'[p] # pc[p]]_vars

\* C4: heavy_running and medium_running are never negative, for every sequence of
\* start_task, end_task and reset_stats calls, end_task without a matching
\* start_task included.
C4_RunningNonNegative ==
    /\ stats.heavy_running >= 0
    /\ stats.medium_running >= 0

\* an end_task(HEAVY) has run with no admission since construction / reset
C4_Witness ==
    /\ stats.heavy_completed >= 1
    /\ admitted_at[HEAVY] = -1
    /\ stats.heavy_running = 0

\* C5: every unit admitted through a wrapper calls end_task exactly once (a unit not
\* admitted never does), and once every launched unit has finished heavy_running
\* and medium_running are 0.
C5_EndTaskOncePerAdmission ==
    /\ \A p \in Procs :
          /\ ended[p] <= 1
          /\ ret[p] # "true" => ended[p] = 0
          /\ (pc[p] = "done" /\ ret[p] = "true") => ended[p] = 1
    /\ (\A p \in Procs : pc[p] \in {"idle", "done"}) =>
          (stats.heavy_running = 0 /\ stats.medium_running = 0)

\* every caller's unit was admitted to a throttled class and has finished
C5_Witness ==
    \A p \in 1..MaxCallers :
        pc[p] = "done" /\ ret[p] = "true" /\ ended[p] = 1 /\ weight[p] # LIGHT

\* C6: when the protected work of an admitted unit raises, end_task has run exactly
\* once by the time the caller observes the failure, and the caller observes the
\* failure itself (not a value, not None).
C6_FailurePropagatesAfterEndTask ==
    \A p \in Procs :
        /\ (outcome[p] = "error" /\ pc[p] = "done") => result[p] = "error"
        /\ (result[p] = "error" /\ ret[p] = "true") => ended[p] = 1
        /\ outcome[p] = "error" => result[p] \in {"pending", "error"}

\* an admitted heavy unit has raised and its caller has seen the failure
C6_Witness ==
    \E p \in Procs :
        /\ weight[p] = HEAVY /\ ret[p] = "true"
        /\ result[p] = "error" /\ ended[p] = 1
        /\ stats.heavy_running = 0 /\ stats.heavy_completed = 1

AllReturned == \A p \in Procs : pc[p] = "done"
Ran == {p \in Procs : result[p] \in {"value", "error"}}
Rejected == {p \in Procs : result[p] = "none"}
AllAsked == \A p \in Procs : pc[p] \in {"work", "finally", "done"}

\* C7: NumProcs units of heavy work launched together through the blocking wrappers
\* (balanced "wait", heavy_task()) with max_parallel_heavy >= 1: eventually every
\* unit has run, heavy_completed = NumProcs and heavy_running = 0.
C7_AllEventuallyComplete ==
    <>(/\ AllReturned
       /\ Ran = Procs
       /\ stats.heavy_completed = NumProcs
       /\ stats.heavy_running = 0)

\* all units completed and some attempt had been rejected on the way
C7_Witness ==
    /\ AllReturned /\ Ran = Procs
    /\ stats.heavy_completed = NumProcs /\ stats.heavy_running = 0
    /\ stats.skips > 0

\* C8 as stated: NumProcs > max_parallel_heavy units launched together through
\* balanced(skip_action="skip"); after all have returned, ran + rejected = NumProcs,
\* heavy_completed + skips = NumProcs and at least one unit was rejected.
C8_SkipModeRejectsSome ==
    (AllReturned /\ NumProcs > config.max_parallel_heavy) =>
        /\ Cardinality(Ran) + Cardinality(Rejected) = NumProcs
        /\ stats.heavy_completed + stats.skips = NumProcs
        /\ Cardinality(Rejected) >= 1

\* C8 amended: after all have returned, ran + rejected = NumProcs and
\* heavy_completed + skips = NumProcs; at least one unit is rejected when every unit
\* has made its admission attempt before any admitted unit has finished.
C8_SkipModeAccounting ==
    /\ (AllReturned /\ NumProcs > config.max_parallel_heavy) =>
          /\ Cardinality(Ran) + Cardinality(Rejected) = NumProcs
          /\ stats.heavy_completed + stats.skips = NumProcs
    /\ (AllAsked /\ stats.heavy_completed = 0 /\ NumProcs > config.max_parallel_heavy) =>
          Cardinality(Rejected) >= 1

\* all units have returned, some ran and some were rejected
C8_Witness ==
    /\ AllReturned
    /\ Cardinality(Ran) >= 1 /\ Cardinality(Rejected) >= 1
    /\ stats.heavy_completed + stats.skips = NumProcs

\* C9: the fail-fast wrapper calls start_task once; when the call returns false it
\* returns None at once: no retry, no work, no end_task, running and completed
\* unchanged, skips larger by exactly 1.
C9_SkipReturnsAtOnce ==
    /\ [](\A p \in Procs : policy[p] = "skip" =>
            /\ attempts[p] <= 1
            /\ ret[p] = "false" =>
                  /\ pc[p] = "done" /\ result[p] = "none"
                  /\ outcome[p] = "none" /\ ended[p] = 0)
    /\ [][\A p \in Procs :
            (policy[p] = "skip" /\ ret[p] # "false" /\ ret'[p] = "false") =>
                /\ stats'.heavy_running = stats.heavy_running
                /\ stats'.medium_running = stats.medium_running
                /\ stats'.heavy_completed = stats.heavy_completed
                /\ stats'.medium_completed = stats.medium_completed
                /\ stats'.skips = stats.skips + 1]_vars

\* a fail-fast unit has been rejected and has returned None
C9_Witness ==
    \E p \in Procs :
        /\ policy[p] = "skip" /\ weight[p] = HEAVY
        /\ attempts[p] = 1 /\ ret[p] = "false"
        /\ pc[p] = "done" /\ result[p] = "none"
        /\ stats.skips >= 1

\* C10: when start_task(w), w heavy or medium, is checked at a time t2 less than
\* cooldown[w] after the time t1 of the latest successful start_task(w), it returns
\* false and admits nothing, whatever running[w] is.
C10_CooldownRejects ==
    [][\A p \in Procs :
          (/\ pc[p] = "can_run_lock" /\ pc'[p] # "can_run_lock"
           /\ policy[p] = "api_start" /\ weight[p] # LIGHT
           /\ admitted_at[weight[p]] >= 0
           /\ now[p] - admitted_at[weight[p]] < Cooldown(config, weight[p]))
          => /\ ret'[p] = "false"
             /\ pc'[p] = "idle"
             /\ Running(stats', weight[p]) = Running(stats, weight[p])]_vars

\* two calls were made: the first was admitted, the second was rejected although
\* heavy_running is below the ceiling
C10_Witness ==
    \E p \in Procs :
        /\ policy[p] = "api_start" /\ weight[p] = HEAVY
        /\ pc[p] = "idle" /\ ret[p] = "false"
        /\ ops = 2 /\ stats.skips = 1
        /\ stats.heavy_running = 1
        /\ stats.heavy_running < config.max_parallel_heavy

\* C11: with cooldown[w] > 0, any two successful admissions of the same throttled
\* class w are at least cooldown[w] apart, under arbitrary concurrent callers: an
\* admission recorded while an earlier one of the class is on record is stamped at
\* least cooldown[w] later than it.
C11_AdmissionsCooldownApart ==
    [][\A p \in Procs :
          (/\ pc[p] = "start_lock" /\ pc'[p] # "start_lock"
           /\ weight[p] # LIGHT
           /\ Cooldown(config, weight[p]) > 0
           /\ admitted_at[weight[p]] >= 0)
          => admitted_at'[weight[p]] - admitted_at[weight[p]]
                >= Cooldown(config, weight[p])]_vars

\* C12: can_run(LIGHT) and start_task(LIGHT) return true in every reachable state,
\* whatever the counters, timestamps and configuration are, and can_run, start_task
\* and end_task on LIGHT leave every counter, skips included, unchanged.
C12_LightAlwaysAdmitted ==
    [][/\ end_task(stats, LIGHT) = stats
       /\ \A p \in Procs :
            (weight[p] = LIGHT /\ policy[p] \in Direct /\ pc'[p] # pc[p])
            => /\ stats' = stats
               /\ pc[p] = "can_run_lock" =>
                    IF policy[p] = "api_check"
                    THEN ret'[p] = "true" /\ pc'[p] = "idle"
                    ELSE pc'[p] = "start_now"
               /\ pc[p] = "start_lock" => (ret'[p] = "true" /\ pc'[p] = "idle")]_vars

\* start_task(LIGHT) has returned true while the heavy class is saturated and a
\* heavy request has been rejected
C12_Witness ==
    \E p \in Procs :
        /\ policy[p] = "api_start" /\ weight[p] = LIGHT
        /\ pc[p] = "idle" /\ ret[p] = "true"
        /\ stats.heavy_running >= config.max_parallel_heavy
        /\ stats.skips >= 1

\* C13: can_run(w), w heavy or medium, returns
\* not (running[w] >= max_parallel[w] or now - last_admission[w] < cooldown[w]);
\* when it returns false skips grows by exactly 1 in the same critical section and
\* nothing else changes; when it returns true no field of the stats changes.
C13_CanRunDecision ==
    [][\A p \in Procs :
          (/\ pc[p] = "can_run_lock" /\ pc'[p] # "can_run_lock"
           /\ policy[p] = "api_check" /\ weight[p] # LIGHT)
          => LET w == weight[p]
                 last == IF w = HEAVY THEN stats.last_heavy_time
                                      ELSE stats.last_medium_time
                 too_busy == Running(stats, w) >= MaxParallelOf(config, w)
                 too_soon == now[p] - last < Cooldown(config, w)
             IN /\ ret'[p] = BoolStr(~(too_busy \/ too_soon))
                /\ ret'[p] = "false" => stats' = [stats EXCEPT !.skips = @ + 1]
                /\ ret'[p] = "true" => stats' = stats]_vars

\* can_run has returned false once, counted in skips, and admitted nothing
C13_Witness ==
    \E p \in Procs :
        /\ policy[p] = "api_check" /\ weight[p] # LIGHT
        /\ pc[p] = "idle" /\ ret[p] = "false"
        /\ stats.skips = 1

\* C14: start_task(w), w heavy or medium, returns the boolean of its embedded
\* admission check.  When it returns true it has increased running[w] by exactly 1
\* and set last_admission[w] to the time it read, leaving skips and the completed
\* counts unchanged; when it returns false it has left running, completed and
\* last_admission unchanged and increased skips by exactly 1.
C14_StartTaskEffect ==
    [][\A p \in Procs :
          (policy[p] = "api_start" /\ weight[p] # LIGHT /\ pc'[p] # pc[p])
          => LET w == weight[p]
                 last == IF w = HEAVY THEN stats.last_heavy_time
                                      ELSE stats.last_medium_time
                 passes == /\ Running(stats, w) < MaxParallelOf(config, w)
                           /\ now[p] - last >= Cooldown(config, w)
             IN /\ pc[p] = "can_run_lock" =>
                     IF passes
                     THEN pc'[p] = "start_now" /\ ret'[p] = "none" /\ stats' = stats
                     ELSE /\ pc'[p] = "idle" /\ ret'[p] = "false"
                          /\ stats' = [stats EXCEPT !.skips = @ + 1]
                /\ pc[p] = "start_now" => stats' = stats
                /\ pc[p] = "start_lock" =>
                     /\ pc'[p] = "idle" /\ ret'[p] = "true"
                     /\ stats' = IF w = HEAVY
                                 THEN [stats EXCEPT !.heavy_running = @ + 1,
                                                    !.last_heavy_time = now[p]]
                                 ELSE [stats EXCEPT !.medium_running = @ + 1,
                                                    !.last_medium_time = now[p]]]_vars

\* one start_task(HEAVY) has returned true and a later one has returned false
C14_Witness ==
    \E p, q \in Procs :
        /\ policy[p] = "api_start" /\ weight[p] = HEAVY /\ ret[p] = "true"
        /\ policy[q] = "api_start" /\ weight[q] = HEAVY /\ ret[q] = "false"
        /\ pc[p] = "idle" /\ pc[q] = "idle"
        /\ stats.heavy_running = 1 /\ stats.skips = 1
        /\ stats.last_heavy_time > 0

\* C15: end_task(w), unconditionally and for every weight class (light included),
\* gives a slot back (running never below 0) and increases a completed count by
\* exactly 1, leaving skips and the last-admission timestamps unchanged.
C15_EndTaskCountsEveryClass ==
    [][\A p \in Procs :
          (pc[p] = "end_lock" /\ pc'[p] = "idle")
          => /\ stats'.heavy_completed + stats'.medium_completed
                  = stats.heavy_completed + stats.medium_completed + 1
             /\ stats'.skips = stats.skips
             /\ stats'.last_heavy_time = stats.last_heavy_time
             /\ stats'.last_medium_time = stats.last_medium_time]_vars

\* C15 (amended): end_task(w) for w heavy or medium sets running[w] to
\* max(0, running[w] - 1) and increases completed[w] by exactly 1 in one critical
\* section, also when running[w] is already 0, and changes nothing else;
\* end_task(LIGHT) changes nothing.
C15_EndTaskEffect ==
    [][\A p \in Procs :
          (pc[p] = "end_lock" /\ pc'[p] = "idle")
          => stats' =
               IF weight[p] = HEAVY
               THEN [stats EXCEPT
                        !.heavy_running = IF @ >= 1 THEN @ - 1 ELSE 0,
                        !.heavy_completed = @ + 1]
               ELSE IF weight[p] = MEDIUM
               THEN [stats EXCEPT
                        !.medium_running = IF @ >= 1 THEN @ - 1 ELSE 0,
                        !.medium_completed = @ + 1]
               ELSE stats]_vars

\* the only call made so far was end_task(HEAVY): it found heavy_running = 0,
\* left it at 0 and counted a completion
C15_Witness ==
    \E p \in Procs :
        /\ policy[p] = "api_end" /\ weight[p] = HEAVY /\ pc[p] = "idle"
        /\ ops = 1
        /\ stats.heavy_running = 0 /\ stats.heavy_completed = 1

\* C16: the skip_rate returned by get_stats equals
\* skips / max(1, completed_total + skips) with completed_total = heavy_completed +
\* medium_completed; it is 0 when nothing has completed or been skipped and never
\* exceeds 1.
C16_SkipRateOverAllOutcomes ==
    snap # <<>> =>
        LET d == snap[1]
            completed_total == d.heavy_completed + d.medium_completed
            denominator == IF completed_total + d.skips >= 1
                           THEN completed_total + d.skips ELSE 1
        IN /\ d.skip_rate[1] * denominator = d.skips * d.skip_rate[2]
           /\ (completed_total = 0 /\ d.skips = 0) => d.skip_rate[1] = 0
           /\ d.skip_rate[1] <= d.skip_rate[2]

\* C17: the state lock is never held while a unit's protected work runs or while a
\* blocked waiter sleeps between admission attempts: a caller that is working or
\* sleeping does not hold the lock, and whoever holds it stands inside one of the
\* coordinator's short critical sections.
C17_LockNotHeldAcrossWork ==
    /\ \A p \in Procs : pc[p] \in {"work", "sleep"} => lock # p
    /\ lock # NoHolder => AtLockBlock(lock)

\* one unit is running its work while another caller is inside can_run's critical
\* section, holding the lock
C17_Witness ==
    \E p, q \in Procs :
        /\ pc[p] = "work" /\ weight[p] = HEAVY
        /\ pc[q] = "can_run_lock" /\ lock = q

\* C18: a configuration with a negative max_parallel_heavy, max_parallel_medium,
\* cooldown_heavy or cooldown_medium is rejected by configure / BalancerConfig and
\* installs no coordinator: the coordinator in place never has a negative ceiling
\* or cooldown.
C18_NegativeConfigRejected ==
    /\ config.max_parallel_heavy >= 0
    /\ config.max_parallel_medium >= 0
    /\ config.cooldown_heavy >= 0
    /\ config.cooldown_medium >= 0

\* C19: the output of the metrics exporter contains, for each throttled weight class
\* (heavy and medium), one gauge for the running count and one counter for the
\* completed count, plus one counter for skips and one gauge for skip_rate.
C19_MetricsCoverBothClasses ==
    metrics # <<>> =>
        LET Has(name, type) ==
                \E i \in 1..Len(metrics) :
                    metrics[i].name = name /\ metrics[i].type = type
        IN /\ Has("betti_heavy_running", "gauge")
           /\ Has("betti_medium_running", "gauge")
           /\ Has("betti_heavy_completed", "counter")
           /\ Has("betti_medium_completed", "counter")
           /\ Has("betti_skips", "counter")
           /\ Has("betti_skip_rate", "gauge")

\* C20: in the absence of reset_stats and configure, heavy_completed,
\* medium_completed and skips never decrease: every step of every operation leaves
\* each of them at least as large as before.
C20_CountersMonotonic ==
    [][/\ stats'.heavy_completed >= stats.heavy_completed
       /\ stats'.medium_completed >= stats.medium_completed
       /\ stats'.skips >= stats.skips]_vars

\* two units have completed and a rejection has been counted in between
C20_Witness ==
    /\ stats.heavy_completed + stats.medium_completed = 2
    /\ stats.skips >= 1
    /\ \A p \in Launched : pc[p] = "done"

\* C26: after configure(**kwargs) has returned, the coordinator it returned carries
\* exactly the requested configuration, also when other threads call get_instance()
\* concurrently with it (no other thread calls configure): a default-config
\* instance created concurrently never pre-empts the configured one, and configure
\* never returns None.
C26_ConfigureReturnsRequested ==
    \A p \in Procs :
        (/\ pc[p] = "idle" /\ policy[p] = "configure"
         /\ \A q \in Procs \ {p} : req[q] = <<>>)
        => /\ got[p] # NoInstance
           /\ ObjConfig(got[p]) = req[p][1]

C28_EndTaskOnAdmittingInstance ==
    [][\A p \in Procs :
         /\ pc[p] \notin {"idle", "done"} => ref'[p] = ref[p]
         /\ ((pc[p] = "start_lock" /\ pc'[p] # "start_lock")
              \/ ended'[p] # ended[p])
            => /\ \A i \in (First..(First + Len(objs))) \ {ref[p]} :
                    ObjStats(i)' = ObjStats(i)
               /\ ended'[p] # ended[p]
                    => /\ ObjStats(ref[p])'.heavy_running
                            = Max0(ObjStats(ref[p]).heavy_running - 1)
                       /\ ObjStats(ref[p])'.heavy_completed
                            = ObjStats(ref[p]).heavy_completed + 1]_vars

\* a unit admitted by the first coordinator has ended after configure installed a
\* replacement: the completion is counted on the first one, the replacement's
\* counters are still zero
C28_Witness ==
    \E p \in Procs :
        /\ pc[p] = "done" /\ ended[p] = 1 /\ ref[p] = First
        /\ stats.heavy_completed = 1
        /\ got[Admin] = instance /\ instance \notin {First, NoInstance}
        /\ ObjStats(instance).heavy_running = 0
        /\ ObjStats(instance).heavy_completed = 0

C23_Middleware ==
    [][\A p \in Procs :
         policy'[p] = "mw" =>
           LET heavy == path'[p] \cap HeavyIndicators # {}
               medium == path'[p] \cap MediumIndicators # {}
           IN /\ weight'[p] = (IF heavy THEN HEAVY ELSE IF medium THEN MEDIUM ELSE LIGHT)
              /\ weight'[p] = LIGHT =>
                    /\ pc'[p] \in {"work", "done"}
                    /\ attempts'[p] = 0 /\ ret'[p] = "none" /\ ended'[p] = 0
                    /\ pc'[p] # pc[p] => (stats' = stats /\ objs' = objs)
              /\ weight'[p] # LIGHT =>
                    /\ pc'[p] = "work" => (ret'[p] = "true" /\ ended'[p] = 0)
                    /\ pc'[p] = "done" => ended'[p] = 1
                    /\ ended'[p] # ended[p] => (pc[p] = "finally" /\ ended[p] = 0)
                    /\ (pc'[p] # pc[p] /\ pc'[p] = "finally") => pc[p] = "work"]_vars

\* a request with a heavy and a medium indicator was served as heavy and ended its
\* unit although call_next raised, next to a light request passed through untouched
C23_Witness ==
    \E p, q \in Procs :
        /\ policy[p] = "mw" /\ path[p] = {"/ai", "/upload"} /\ weight[p] = HEAVY
        /\ pc[p] = "done" /\ outcome[p] = "error" /\ ended[p] = 1
        /\ stats.heavy_completed = 1 /\ stats.medium_completed = 0
        /\ policy[q] = "mw" /\ path[q] = {"/status"} /\ weight[q] = LIGHT
        /\ pc[q] = "done" /\ ended[q] = 0

\* C24: a function wrapped by balanced(...) with a skip_action that is neither
\* "wait" nor "skip" runs its work at once, whatever its weight and however
\* saturated the class is: it never polls, never calls start_task or end_task, and
\* none of its steps changes a counter.
C24_OtherSkipActionPassesThrough ==
    [][\A p \in Procs :
         policy'[p] = "pass" =>
            /\ pc'[p] \in {"work", "done"}
            /\ pc[p] = "idle" => pc'[p] = "work"
            /\ attempts'[p] = 0 /\ ret'[p] = "none" /\ ended'[p] = 0
            /\ pc'[p] # pc[p] => (stats' = stats /\ objs' = objs)]_vars

\* heavy work passed through and finished while the heavy class was at its ceiling
C24_Witness ==
    \E p, q \in Procs :
        /\ policy[p] = "pass" /\ weight[p] = HEAVY /\ pc[p] = "done"
        /\ policy[q] = "wait" /\ weight[q] = HEAVY /\ pc[q] = "work"
        /\ stats.heavy_running = config.max_parallel_heavy
        /\ stats.heavy_completed = 0 /\ stats.skips = 0

\* C27: a blocking caller cancelled while it is still polling, before any of its
\* start_task calls returned true, never calls end_task: the cancellation changes no
\* counter, the caller leaves with the cancellation, and of its attempts only the
\* rejections counted in skips remain.
C27_CancelledWhilePollingNeverEnds ==
    [][\A p \in Procs :
         outcome'[p] = "cancelled" =>
            /\ ended'[p] = 0
            /\ ret'[p] = "false"
            /\ pc'[p] = "done" /\ result'[p] = "cancelled"
            /\ outcome[p] # "cancelled" => (stats' = stats /\ objs' = objs)
            /\ stats'.skips >= 1]_vars

\* a waiter rejected at least once was cancelled while another unit held the slot:
\* the running count is that unit's, nothing was completed
C27_Witness ==
    \E p, q \in Procs :
        /\ result[p] = "cancelled" /\ attempts[p] >= 1 /\ weight[p] = HEAVY
        /\ pc[q] = "work" /\ weight[q] = HEAVY
        /\ stats.heavy_running = 1 /\ stats.heavy_completed = 0
        /\ stats.skips >= 1

\* C25: counters against units, no reset_stats, every end_task following its own
\* successful start_task (the wrappers).  For each throttled class w, running[w] is
\* the number of units of class w admitted by start_task whose end_task has not
\* happened, completed[w] is the number of end_task(w) calls made so far, and the
\* admissions of class w equal running[w] + completed[w].
C25_CountersMatchUnits ==
    \A w \in {HEAVY, MEDIUM} :
        LET admitted == {p \in Procs : weight[p] = w /\ ret[p] = "true"}
            open == {p \in admitted : ended[p] = 0}
            closed == {p \in Procs : weight[p] = w /\ ended[p] = 1}
            completed == IF w = HEAVY THEN stats.heavy_completed
                                      ELSE stats.medium_completed
        IN /\ \A p \in Procs : ended[p] <= 1
           /\ Running(stats, w) = Cardinality(open)
           /\ completed = Cardinality(closed)
           /\ Cardinality(admitted) = Running(stats, w) + completed

\* one heavy unit has ended and another is still running
C25_Witness ==
    /\ stats.heavy_running = 1 /\ stats.heavy_completed = 1
    /\ \E p, q \in Procs :
          /\ weight[p] = HEAVY /\ pc[p] = "done" /\ ended[p] = 1
          /\ weight[q] = HEAVY /\ pc[q] = "work" /\ ret[q] = "true"

\* C29: the two throttled classes are independent except for the shared skips
\* counter.  A step of a can_run / start_task / end_task call on heavy leaves
\* medium_running, medium_completed and last_medium_time unchanged, and a step of a
\* call on medium leaves the heavy fields unchanged; and a call is rejected only
\* when its own class is at its ceiling or inside its own cooldown, whatever the
\* state of the other class.
C29_ClassesIndependent ==
    [][\A p \in Procs :
         pc'[p] # pc[p] =>
            /\ weight'[p] = HEAVY =>
                  /\ stats'.medium_running = stats.medium_running
                  /\ stats'.medium_completed = stats.medium_completed
                  /\ stats'.last_medium_time = stats.last_medium_time
            /\ weight'[p] = MEDIUM =>
                  /\ stats'.heavy_running = stats.heavy_running
                  /\ stats'.heavy_completed = stats.heavy_completed
                  /\ stats'.last_heavy_time = stats.last_heavy_time
            /\ (pc[p] = "can_run_lock" /\ ret'[p] = "false") =>
                  LET w == weight[p]
                      last == IF w = HEAVY THEN stats.last_heavy_time
                                           ELSE stats.last_medium_time
                  IN \/ Running(stats, w) >= MaxParallelOf(config, w)
                     \/ now[p] - last < Cooldown(config, w)]_vars

\* a medium unit was admitted while the heavy class was at its ceiling and had
\* rejected a call
C29_Witness ==
    \E p \in Procs :
        /\ policy[p] = "api_start" /\ weight[p] = MEDIUM
        /\ pc[p] = "idle" /\ ret[p] = "true"
        /\ stats.medium_running = 1
        /\ stats.heavy_running >= config.max_parallel_heavy
        /\ stats.skips >= 1

\* the sum of f over the set S
RECURSIVE Total(_, _)
Total(S, f) ==
    IF S = {} THEN 0
    ELSE LET t == CHOOSE x \in S : TRUE IN f[t] + Total(S \ {t}, f)

\* workers inside the heavy job, and workers holding a slot
InJob == {t \in Procs : wpc[t] = "job"}
Holding == {t \in Procs : wpc[t] \in {"job", "finish"}}

\* C30: torture-test workers in balanced mode.  0 <= active_heavy <= MAX_PAR_HEAVY
\* at all times and at most MAX_PAR_HEAVY threads execute the heavy job; every loop
\* iteration of a worker results in exactly one of a skip (skips += 1) or an
\* admitted run (heavy_runs += 1), and every admitted run is followed by exactly one
\* decrement of active_heavy.
C30_TortureBalanced ==
    mode = "balanced" =>
        /\ 0 <= active_heavy /\ active_heavy <= MAX_PAR_HEAVY
        /\ Cardinality(InJob) <= MAX_PAR_HEAVY
        /\ active_heavy = Cardinality(Holding)
        /\ \A t \in Procs :
              /\ tally[t].skip + tally[t].run
                    = tally[t].iter - (IF wpc[t] = "decide" THEN 1 ELSE 0)
              /\ tally[t].dec = tally[t].run - (IF t \in Holding THEN 1 ELSE 0)
        /\ counters.skips = Total(Procs, [t \in Procs |-> tally[t].skip])
        /\ counters.heavy_runs = Total(Procs, [t \in Procs |-> tally[t].run])
        /\ counters.total_loops = Total(Procs, [t \in Procs |-> tally[t].dec])

\* balanced phase: MAX_PAR_HEAVY workers are inside the heavy job, another worker
\* was turned away, and a job admitted earlier has given its slot back
C30_Witness ==
    /\ mode = "balanced"
    /\ Cardinality(InJob) = MAX_PAR_HEAVY
    /\ active_heavy = MAX_PAR_HEAVY
    /\ counters.skips >= 1
    /\ counters.total_loops >= 1

====
